---- MODULE Spec2Model ----
(***************************************************************************)
(* Model of the gitwebhooks authentication-and-dispatch core:              *)
(* WebhookRequestHandler.do_POST, the per-provider handlers and the        *)
(* signature/token verifiers.                                              *)
(*                                                                         *)
(* Strings are sequences of symbols (a symbol is a TLA+ string standing    *)
(* for one or more characters).  Python's None is the reserved value None. *)
(***************************************************************************)
EXTENDS Integers, Sequences, FiniteSets, TLC

(***************************************************************************)
(* Bounds                                                                  *)
(***************************************************************************)
\* largest number of provider markers (event headers) one request carries
MaxMarkers == 2
\* largest numeric value of a timestamp header
MaxTimestamp == 12

(***************************************************************************)
(* Strings                                                                 *)
(***************************************************************************)
None == <<"<None>">>
EmptyStr == <<>>

\* a character outside ASCII (latin-1 0xE9), as http.server would decode it
NonAsciiChar == "<0xE9>"

IsAscii(s) == \A i \in 1..Len(s) : s[i] # NonAsciiChar

\* str.startswith
StartsWith(s, prefix) ==
    /\ Len(prefix) <= Len(s)
    /\ SubSeq(s, 1, Len(prefix)) = prefix

Digits == <<"0", "1", "2", "3", "4", "5", "6", "7", "8", "9">>

IsDigit(c) == \E d \in 1..10 : Digits[d] = c

DigitValue(c) == (CHOOSE d \in 1..10 : Digits[d] = c) - 1

RECURSIVE DigitsValue(_)
DigitsValue(s) ==
    IF s = <<>> THEN 0
    ELSE 10 * DigitsValue(SubSeq(s, 1, Len(s) - 1)) + DigitValue(s[Len(s)])

\* int(s) succeeds on a non-empty run of decimal digits (leading zeros allowed)
IsIntLiteral(s) == s # None /\ Len(s) > 0 /\ \A i \in 1..Len(s) : IsDigit(s[i])

\* int(s) for an integer literal
ParseInt(s) == DigitsValue(s)

\* f'{n}' for n >= 0: canonical decimal, no leading zeros
RECURSIVE FormatInt(_)
FormatInt(n) ==
    IF n < 10 THEN <<Digits[n + 1]>>
    ELSE FormatInt(n \div 10) \o <<Digits[(n % 10) + 1]>>

(***************************************************************************)
(* Cryptographic primitives.  An HMAC is idealised as an injective         *)
(* function of (algorithm, key, message) rendered as a string.             *)
(***************************************************************************)
HmacHexDigest(alg, key, msg) == <<alg, "k:">> \o key \o <<"m:">> \o msg

\* base64.b64encode of a 32-byte digest: 44 characters, the last one '='
B64Encode(digest) == digest \o <<"=">>

QuoteChar(c) ==
    CASE c = "=" -> <<"%", "3", "D">>
      [] c = "+" -> <<"%", "2", "B">>
      [] c = "/" -> <<"%", "2", "F">>
      [] c = " " -> <<"+">>
      [] OTHER   -> <<c>>

\* urllib.parse.quote_plus
RECURSIVE QuotePlus(_)
QuotePlus(s) ==
    IF s = <<>> THEN <<>> ELSE QuoteChar(Head(s)) \o QuotePlus(Tail(s))

(***************************************************************************)
(* SignatureVerificationResult; raised names an exception that escaped     *)
(***************************************************************************)
Success == [is_valid |-> TRUE, error_message |-> "", raised |-> ""]
Failure(message) == [is_valid |-> FALSE, error_message |-> message, raised |-> ""]
Raised(exc) == [is_valid |-> FALSE, error_message |-> "", raised |-> exc]

\* hmac.compare_digest on two str arguments: TypeError unless both are ASCII
CompareDigestRaises(a, b) == ~IsAscii(a) \/ ~IsAscii(b)

PREFIX == <<"sha1=">>

\* GithubVerify without the 'if not secret' test
GithubVerify_NoSecretTest(payload, signature, secret) ==
    IF signature = None THEN Failure("Missing signature")
    ELSE IF ~StartsWith(signature, PREFIX) THEN Failure("Invalid signature format")
    ELSE LET expected_signature == PREFIX \o HmacHexDigest("sha1", secret, payload)
         IN  IF CompareDigestRaises(signature, expected_signature) THEN Raised("TypeError")
             ELSE IF signature = expected_signature THEN Success
             ELSE Failure("Invalid signature")

\* GithubSignatureVerifier.verify
GithubVerify(payload, signature, secret) ==
    IF signature = None THEN Failure("Missing signature")
    ELSE IF secret = EmptyStr THEN Failure("Secret not configured")
    ELSE IF ~StartsWith(signature, PREFIX) THEN Failure("Invalid signature format")
    ELSE LET expected_signature == PREFIX \o HmacHexDigest("sha1", secret, payload)
         IN  IF CompareDigestRaises(signature, expected_signature) THEN Raised("TypeError")
             ELSE IF signature = expected_signature THEN Success
             ELSE Failure("Invalid signature")

\* the signature GiteeSignatureVerifier.verify expects for a timestamp
GiteeExpectedSignature(timestamp_int, secret) ==
    LET sign_string == FormatInt(timestamp_int) \o <<"\n">> \o secret
    IN  QuotePlus(B64Encode(HmacHexDigest("sha256", secret, sign_string)))

\* GiteeSignatureVerifier.verify
GiteeVerify(payload, signature, secret, timestamp) ==
    IF signature = None THEN Failure("Missing signature or password")
    ELSE IF CompareDigestRaises(signature, secret) THEN Raised("TypeError")
    ELSE IF signature = secret THEN Success
    ELSE IF timestamp # None THEN
         IF ~IsIntLiteral(timestamp) THEN Failure("Invalid timestamp format")
         ELSE IF signature = GiteeExpectedSignature(ParseInt(timestamp), secret)
              THEN Success
              ELSE Failure("Invalid signature")
    ELSE Failure("Invalid password")

\* GitlabTokenVerifier.verify
GitlabVerify(payload, signature, secret) ==
    IF signature = secret THEN Success ELSE Failure("Invalid token")

\* CustomTokenVerifier.verify
CustomVerify(verify_enabled, payload, signature, secret) ==
    IF ~verify_enabled THEN Success
    ELSE IF signature = secret THEN Success
    ELSE Failure("Invalid token")


(***************************************************************************)
(* Providers and configuration value objects                               *)
(***************************************************************************)
GITHUB == "github"
GITEE  == "gitee"
GITLAB == "gitlab"
CUSTOM == "custom"
Providers == {GITHUB, GITEE, GITLAB, CUSTOM}
\* request.provider when no marker matched
NoProvider == "<no provider>"

HTTP_OK                    == 200
HTTP_BAD_REQUEST           == 400
HTTP_UNAUTHORIZED          == 401
HTTP_FORBIDDEN             == 403
HTTP_NOT_FOUND             == 404
HTTP_NOT_ACCEPTABLE        == 406
HTTP_PRECONDITION_FAILED   == 412
HTTP_INTERNAL_SERVER_ERROR == 500

CONTENT_TYPE_JSON            == "application/json"
CONTENT_TYPE_FORM_URLENCODED == "application/x-www-form-urlencoded"

HEADER_CONTENT_TYPE    == "Content-Type"
HEADER_CONTENT_LENGTH  == "Content-Length"
HEADER_GITHUB_EVENT    == "X-GitHub-Event"
HEADER_GITHUB_SIGNATURE == "X-Hub-Signature"
HEADER_GITEE_EVENT     == "X-Gitee-Event"
HEADER_GITEE_TOKEN     == "X-Gitee-Token"
HEADER_GITEE_TIMESTAMP == "X-Gitee-Timestamp"
HEADER_GITLAB_EVENT    == "X-Gitlab-Event"
HEADER_GITLAB_TOKEN    == "X-Gitlab-Token"
\* the loader's defaults for the custom section
HEADER_CUSTOM_NAME     == "X-Custom-Webhook"
HEADER_CUSTOM_EVENT    == "X-Custom-Event"
HEADER_CUSTOM_TOKEN    == "X-Custom-Token"

\* str.lower on the header names a request may carry
Lower(name) ==
    CASE name = "Content-Type"      -> "content-type"
      [] name = "Content-Length"    -> "content-length"
      [] name = "X-GitHub-Event"    -> "x-github-event"
      [] name = "X-Hub-Signature"   -> "x-hub-signature"
      [] name = "X-Gitee-Event"     -> "x-gitee-event"
      [] name = "X-Gitee-Token"     -> "x-gitee-token"
      [] name = "X-Gitee-Timestamp" -> "x-gitee-timestamp"
      [] name = "X-Gitlab-Event"    -> "x-gitlab-event"
      [] name = "X-Gitlab-Token"    -> "x-gitlab-token"
      [] name = "X-Custom-Webhook"  -> "x-custom-webhook"
      [] name = "X-Custom-Event"    -> "x-custom-event"
      [] name = "X-Custom-Token"    -> "x-custom-token"
      [] OTHER                      -> name

\* http.client.HTTPMessage.get: the name is matched case-insensitively
MessageGet(headers, name, default) ==
    IF \E n \in DOMAIN headers : Lower(n) = Lower(name)
    THEN headers[CHOOSE n \in DOMAIN headers : Lower(n) = Lower(name)]
    ELSE default

\* dict.get on dict(self.headers): the name is matched exactly
DictGet(headers, name) ==
    IF name \in DOMAIN headers THEN headers[name] ELSE None

\* ProviderConfig; the custom-only fields default to ''
ProviderConfig(provider, verify, secret, handle_events) ==
    [provider |-> provider, verify |-> verify, secret |-> secret,
     handle_events |-> handle_events,
     header_name |-> "", header_value |-> EmptyStr, header_event |-> "",
     header_token |-> "", identifier_path |-> EmptyStr]

\* allows_event letting a missing event through ('None means all events')
allows_event_NoneAllowed(config, event) ==
    IF config.handle_events = <<>> \/ event = None THEN TRUE
    ELSE \E i \in 1..Len(config.handle_events) : config.handle_events[i] = event

\* ProviderConfig.allows_event
allows_event(config, event) ==
    IF config.handle_events = <<>> THEN TRUE
    ELSE \E i \in 1..Len(config.handle_events) : config.handle_events[i] = event

\* RepositoryConfig
RepositoryConfig(name, cwd, cmd) == [name |-> name, cwd |-> cwd, cmd |-> cmd]

\* the NUL character, which no argument of execve may contain
NUL == "<0x00>"
Range(s) == {s[i] : i \in DOMAIN s}

(***************************************************************************)
(* Request bodies.  A body is a sequence of lexemes; json.loads and        *)
(* parse_qs are given on the bodies the model sends.  Parsed values are    *)
(* tagged: [t |-> "obj", v |-> map], [t |-> "str", v |-> string],          *)
(* [t |-> "list", v |-> items].                                            *)
(***************************************************************************)
JObj(map) == [t |-> "obj", v |-> map]
JStr(str) == [t |-> "str", v |-> str]
JList(items) == [t |-> "list", v |-> items]
\* post_data of a body that was not parsed (Python None)
JNone == [t |-> "none", v |-> None]

\* a byte sequence that is not valid UTF-8
InvalidUtf8 == "<0xFF>"

\* {"repository":{"full_name":r},"project":{"path_with_namespace":r}}
RepoBody(r) ==
    <<"{", "repository", ":", "{", "full_name", ":">> \o r \o <<"}", ",",
      "project", ":", "{", "path_with_namespace", ":">> \o r \o <<"}", "}">>

\* {}
EmptyObjectBody == <<"{", "}">>
\* {   (malformed JSON)
MalformedBody == <<"{">>
\* repository=x   (a form body)
FormBody == <<"repository", "=", "x">>
\* undecodable bytes
UndecodableBody == <<InvalidUtf8>>
\* null
NullBody == <<"null">>
\* []
ListBody == <<"[", "]">>
\* {"repository":"x","project":"x"}
NonObjectUnderKeyBody ==
    <<"{", "repository", ":", "x", ",", "project", ":", "x", "}">>
\* {"repository":{},"project":{}}
MissingLeafBody ==
    <<"{", "repository", ":", "{", "}", ",", "project", ":", "{", "}", "}">>
\* {"repository":{"full_name":["o/r"]},"project":{"path_with_namespace":["o/r"]}}
ListLeafBody ==
    <<"{", "repository", ":", "{", "full_name", ":", "[", "o/r", "]", "}", ",",
      "project", ":", "{", "path_with_namespace", ":", "[", "o/r", "]", "}", "}">>

KnownRepo == <<"o/r">>
OtherRepo == <<"g/p">>
UnknownRepo == <<"x/y">>
RepoNames == {KnownRepo, OtherRepo, UnknownRepo}

Decodable(payload) == \A i \in 1..Len(payload) : payload[i] # InvalidUtf8

\* json.loads(payload.decode('utf-8')) succeeds
JsonParses(payload) ==
    /\ Decodable(payload)
    /\ \/ payload \in {EmptyObjectBody, NullBody, ListBody, NonObjectUnderKeyBody,
                       MissingLeafBody, ListLeafBody}
       \/ \E r \in RepoNames : payload = RepoBody(r)

\* json.loads(payload.decode('utf-8')) on a body that parses
JsonLoads(payload) ==
    LET under(repository, project) ==
            JObj([k \in {"repository", "project"} |->
                    IF k = "repository" THEN repository ELSE project])
    IN
    IF payload = EmptyObjectBody THEN JObj(<<>>)
    ELSE IF payload = NullBody THEN JNone
    ELSE IF payload = ListBody THEN JList(<<>>)
    ELSE IF payload = NonObjectUnderKeyBody THEN under(JStr(<<"x">>), JStr(<<"x">>))
    ELSE IF payload = MissingLeafBody THEN under(JObj(<<>>), JObj(<<>>))
    ELSE IF payload = ListLeafBody
    THEN under(JObj([j \in {"full_name"} |-> JList(<<JStr(KnownRepo)>>)]),
               JObj([j \in {"path_with_namespace"} |-> JList(<<JStr(KnownRepo)>>)]))
    ELSE LET r == CHOOSE r \in RepoNames : payload = RepoBody(r)
         IN  JObj([k \in {"repository", "project"} |->
                    IF k = "repository"
                    THEN JObj([j \in {"full_name"} |-> JStr(r)])
                    ELSE JObj([j \in {"path_with_namespace"} |-> JStr(r)])])

\* {k: v[0] ...} over parse_qs(payload.decode('utf-8')): fields without '='
\* are dropped
FormLoads(payload) ==
    IF Len(payload) = 3 /\ payload[2] = "="
    THEN JObj([k \in {payload[1]} |-> JStr(<<payload[3]>>)])
    ELSE JObj(<<>>)

\* 'needle in haystack' for a content type held as a sequence of symbols
Contains(haystack, needle) == \E i \in 1..Len(haystack) : haystack[i] = needle

(***************************************************************************)
(* Provider detection and the per-provider handlers                        *)
(***************************************************************************)
\* parse_provider_and_event testing the GitLab header before the Gitee header
parse_provider_and_event_GitlabFirst(headers, configs) ==
    IF MessageGet(headers, HEADER_GITHUB_EVENT, None) # None
    THEN <<GITHUB, MessageGet(headers, HEADER_GITHUB_EVENT, None)>>
    ELSE IF MessageGet(headers, HEADER_GITLAB_EVENT, None) # None
    THEN <<GITLAB, MessageGet(headers, HEADER_GITLAB_EVENT, None)>>
    ELSE IF MessageGet(headers, HEADER_GITEE_EVENT, None) # None
    THEN <<GITEE, MessageGet(headers, HEADER_GITEE_EVENT, None)>>
    ELSE IF /\ CUSTOM \in DOMAIN configs
            /\ configs[CUSTOM].header_name # ""
            /\ LET header_value == MessageGet(headers, configs[CUSTOM].header_name, EmptyStr)
               IN  /\ header_value # EmptyStr
                   /\ StartsWith(header_value, configs[CUSTOM].header_value)
    THEN <<CUSTOM, IF configs[CUSTOM].header_event # ""
                   THEN MessageGet(headers, configs[CUSTOM].header_event, None)
                   ELSE None>>
    ELSE <<NoProvider, None>>

\* WebhookRequestHandler._parse_provider_and_event: <<provider, event>>
parse_provider_and_event(headers, configs) ==
    IF MessageGet(headers, HEADER_GITHUB_EVENT, None) # None
    THEN <<GITHUB, MessageGet(headers, HEADER_GITHUB_EVENT, None)>>
    ELSE IF MessageGet(headers, HEADER_GITEE_EVENT, None) # None
    THEN <<GITEE, MessageGet(headers, HEADER_GITEE_EVENT, None)>>
    ELSE IF MessageGet(headers, HEADER_GITLAB_EVENT, None) # None
    THEN <<GITLAB, MessageGet(headers, HEADER_GITLAB_EVENT, None)>>
    ELSE IF /\ CUSTOM \in DOMAIN configs
            /\ configs[CUSTOM].header_name # ""
            /\ LET header_value == MessageGet(headers, configs[CUSTOM].header_name, EmptyStr)
               IN  /\ header_value # EmptyStr
                   /\ StartsWith(header_value, configs[CUSTOM].header_value)
    THEN <<CUSTOM, IF configs[CUSTOM].header_event # ""
                   THEN MessageGet(headers, configs[CUSTOM].header_event, None)
                   ELSE None>>
    ELSE <<NoProvider, None>>

\* GithubHandler.verify_signature
GithubVerifySignature(request, config) ==
    GithubVerify(request.payload, DictGet(request.headers, "X-Hub-Signature"),
                 config.secret)

\* GiteeHandler.verify_signature
GiteeVerifySignature(request, config) ==
    LET signature == DictGet(request.headers, "X-Gitee-Token")
        timestamp == DictGet(request.headers, "X-Gitee-Timestamp")
    IN  IF signature = None THEN Failure("Missing signature or password")
        ELSE GiteeVerify(request.payload, signature, config.secret, timestamp)

\* GitlabHandler.verify_signature
GitlabVerifySignature(request, config) ==
    GitlabVerify(request.payload, DictGet(request.headers, "X-Gitlab-Token"),
                 config.secret)

\* CustomHandler.verify_signature
CustomVerifySignature(request, config) ==
    LET verify_enabled == config.header_token # ""
        signature == IF config.header_token # ""
                     THEN DictGet(request.headers, config.header_token)
                     ELSE EmptyStr
    IN  CustomVerify(verify_enabled, request.payload, signature, config.secret)

\* handler.verify_signature, dispatched on the handler class
verify_signature(provider, request, config) ==
    CASE provider = GITHUB -> GithubVerifySignature(request, config)
      [] provider = GITEE  -> GiteeVerifySignature(request, config)
      [] provider = GITLAB -> GitlabVerifySignature(request, config)
      [] provider = CUSTOM -> CustomVerifySignature(request, config)

\* handler.is_event_allowed: every handler delegates to config.allows_event
is_event_allowed(provider, event, config) == allows_event(config, event)

\* dict.get(key, default) on a parsed JSON object
ObjGet(obj, key, default) ==
    IF key \in DOMAIN obj.v THEN obj.v[key] ELSE default

Returned(value) == [raised |-> "", value |-> value]
ExtractRaised(exc) == [raised |-> exc, value |-> JNone]

\* GithubHandler.extract_repository / GiteeHandler.extract_repository /
\* GitlabHandler.extract_repository share this shape
FixedPathExtract(post_data, outer, inner) ==
    IF post_data.t = "none" THEN Returned(JNone)
    ELSE IF post_data.t # "obj" THEN ExtractRaised("AttributeError")
    ELSE LET repo == ObjGet(post_data, outer, JObj(<<>>))
         IN  IF repo.t = "obj"
             THEN Returned(ObjGet(repo, inner, JNone))
             ELSE Returned(JNone)

\* str.split('.') of a path held as segments separated by the symbol "."
RECURSIVE SplitDots(_)
SplitDots(path) ==
    IF \A i \in 1..Len(path) : path[i] # "."
    THEN <<path>>
    ELSE LET d == CHOOSE i \in 1..Len(path) :
                      path[i] = "." /\ \A j \in 1..(i - 1) : path[j] # "."
         IN  <<SubSeq(path, 1, d - 1)>> \o SplitDots(SubSeq(path, d + 1, Len(path)))

\* the loop of CustomHandler.extract_repository; a key is one symbol
RECURSIVE Walk(_, _)
Walk(current, path_parts) ==
    IF path_parts = <<>>
    THEN IF current.t = "str" THEN current ELSE JNone
    ELSE IF current.t = "obj"
         THEN Walk(IF Len(Head(path_parts)) = 1
                   THEN ObjGet(current, Head(path_parts)[1], JNone)
                   ELSE JNone,
                   Tail(path_parts))
         ELSE JNone

\* CustomExtract following only the first segment of identifier_path
CustomExtract_FirstSegment(post_data, config) ==
    IF post_data.t = "none" \/ config.identifier_path = EmptyStr
    THEN Returned(JNone)
    ELSE Returned(Walk(post_data, <<Head(SplitDots(config.identifier_path))>>))

\* CustomHandler.extract_repository
CustomExtract(post_data, config) ==
    IF post_data.t = "none" \/ config.identifier_path = EmptyStr
    THEN Returned(JNone)
    ELSE Returned(Walk(post_data, SplitDots(config.identifier_path)))

\* handler.extract_repository, dispatched on the handler class
extract_repository(provider, request, config) ==
    CASE provider = GITHUB -> FixedPathExtract(request.post_data, "repository", "full_name")
      [] provider = GITEE  -> FixedPathExtract(request.post_data, "repository", "full_name")
      [] provider = GITLAB -> FixedPathExtract(request.post_data, "project", "path_with_namespace")
      [] provider = CUSTOM -> CustomExtract(request.post_data, config)

(***************************************************************************)
(* Configurations installed at startup, and the requests a client sends    *)
(***************************************************************************)
GoodSecret == <<"s3cret">>
WrongSecret == <<"wr0ng">>
Events == {<<"push">>, <<"release">>}
HandleEventsChoices == {<<>>, <<<<"push">>>>}
IdentifierPath == <<"project", ".", "path_with_namespace">>

\* the custom section as ProviderConfig.from_config_parser fills it
CustomConfig(verify, secret, handle_events, header_name, header_value, header_event, header_token) ==
    [ProviderConfig(CUSTOM, verify, secret, handle_events) EXCEPT
        !.header_name = header_name, !.header_value = header_value,
        !.header_event = header_event, !.header_token = header_token,
        !.identifier_path = IdentifierPath]

\* a provider table whose four sections share verify, secret and handle_events
FullTable(verify, secret, handle_events, header_name, header_value, header_event, header_token) ==
    [p \in Providers |->
        IF p = CUSTOM
        THEN CustomConfig(verify, secret, handle_events,
                          header_name, header_value, header_event, header_token)
        ELSE ProviderConfig(p, verify, secret, handle_events)]

\* the custom section left at the loader's defaults
DefaultTable(verify, secret, handle_events) ==
    FullTable(verify, secret, handle_events,
              HEADER_CUSTOM_NAME, <<"custom">>, HEADER_CUSTOM_EVENT, HEADER_CUSTOM_TOKEN)

Restrict(f, S) == [x \in S |-> f[x]]

\* ---- the configuration file and its loader ----
\* ConfigParser.get(section, option, fallback=...): the fallback answers for a
\* missing option and for a missing section alike
ParserGet(parser, section, option, fallback) ==
    IF section \in DOMAIN parser /\ option \in DOMAIN parser[section]
    THEN parser[section][option]
    ELSE fallback

\* ConfigParser.getboolean(section, option, fallback=False)
ParserGetBoolean(parser, section, option, fallback) ==
    IF section \in DOMAIN parser /\ option \in DOMAIN parser[section]
    THEN parser[section][option] \in {<<"true">>, <<"yes">>, <<"on">>, <<"1">>}
    ELSE fallback

\* str.strip() on a string whose blanks are the symbol " "
RECURSIVE Strip(_)
Strip(str) ==
    IF str = EmptyStr THEN EmptyStr
    ELSE IF Head(str) = " " THEN Strip(Tail(str))
    ELSE IF str[Len(str)] = " " THEN Strip(SubSeq(str, 1, Len(str) - 1))
    ELSE str

\* str.split(',')
RECURSIVE SplitCommas(_)
SplitCommas(str) ==
    IF \A i \in 1..Len(str) : str[i] # ","
    THEN <<str>>
    ELSE LET d == CHOOSE i \in 1..Len(str) :
                      str[i] = "," /\ \A j \in 1..(i - 1) : str[j] # ","
         IN  <<SubSeq(str, 1, d - 1)>> \o SplitCommas(SubSeq(str, d + 1, Len(str)))

\* [e.strip() for e in parts if e.strip()]
RECURSIVE StripAll(_)
StripAll(parts) ==
    IF parts = <<>> THEN <<>>
    ELSE IF Strip(Head(parts)) = EmptyStr THEN StripAll(Tail(parts))
    ELSE <<Strip(Head(parts))>> \o StripAll(Tail(parts))

\* ProviderConfig.from_config_parser
from_config_parser(parser, provider) ==
    LET handle_events_str == Strip(ParserGet(parser, provider, "handle_events", EmptyStr))
        handle_events == IF handle_events_str # EmptyStr
                         THEN StripAll(SplitCommas(handle_events_str))
                         ELSE <<>>
        config == ProviderConfig(provider,
                                 ParserGetBoolean(parser, provider, "verify", FALSE),
                                 ParserGet(parser, provider, "secret", EmptyStr),
                                 handle_events)
    IN  IF provider = CUSTOM
        THEN [config EXCEPT
                !.header_name = ParserGet(parser, provider, "header_name", HEADER_CUSTOM_NAME),
                !.header_value = ParserGet(parser, provider, "header_value", <<"custom">>),
                !.header_event = ParserGet(parser, provider, "header_event", HEADER_CUSTOM_EVENT),
                !.header_token = ParserGet(parser, provider, "header_token", HEADER_CUSTOM_TOKEN),
                !.identifier_path = ParserGet(parser, provider, "identifier_path", EmptyStr)]
        ELSE config

\* ConfigLoader.load_provider_config: from_config_parser never raises
\* NoSectionError (every get carries a fallback), so its result is returned
load_provider_config(parser, provider) == from_config_parser(parser, provider)

\* ConfigLoader.load_all_provider_configs
load_all_provider_configs(parser) ==
    [provider \in Providers |-> load_provider_config(parser, provider)]

Options(verify, secret, handle_events) ==
    [o \in {"verify", "secret", "handle_events"} |->
        CASE o = "verify" -> verify
          [] o = "secret" -> secret
          [] o = "handle_events" -> handle_events]

\* configuration files: no provider section at all, a [gitee] section only,
\* a [github] and a [custom] section
ConfigFiles ==
    {<<>>,
     [section \in {GITEE} |-> Options(<<"true">>, GoodSecret, EmptyStr)],
     [section \in {GITHUB, CUSTOM} |->
        IF section = GITHUB
        THEN Options(<<"yes">>, GoodSecret, <<" ", "push", ",", " ", "release", ",">>)
        ELSE [o \in {"identifier_path"} |-> IdentifierPath]]}

\* the tables configure() may install: every verify / handle_events choice,
\* an empty secret, each custom setting left empty, each section missing
ProviderTables ==
    {DefaultTable(v, GoodSecret, he) : v \in BOOLEAN, he \in HandleEventsChoices}
    \cup {DefaultTable(v, EmptyStr, <<>>) : v \in BOOLEAN}
    \cup {FullTable(TRUE, GoodSecret, <<>>,
                    HEADER_CUSTOM_NAME, <<"custom">>, HEADER_CUSTOM_EVENT, ""),
          FullTable(FALSE, GoodSecret, <<<<"push">>>>,
                    HEADER_CUSTOM_NAME, <<"custom">>, "", HEADER_CUSTOM_TOKEN),
          FullTable(FALSE, GoodSecret, <<>>,
                    HEADER_CUSTOM_NAME, EmptyStr, HEADER_CUSTOM_EVENT, HEADER_CUSTOM_TOKEN),
          FullTable(FALSE, GoodSecret, <<>>,
                    "", <<"custom">>, HEADER_CUSTOM_EVENT, HEADER_CUSTOM_TOKEN)}
    \cup {Restrict(DefaultTable(FALSE, GoodSecret, <<>>), Providers \ {p}) : p \in Providers}
    \cup {load_all_provider_configs(parser) : parser \in ConfigFiles}
    \cup {[DefaultTable(FALSE, GoodSecret, <<>>) EXCEPT ![CUSTOM].identifier_path = path] :
            path \in {<<"repository">>,
                      <<"project", ".", "path_with_namespace", ".", "name">>}}

RepositoryTable ==
    [r \in {KnownRepo, OtherRepo} |->
        IF r = KnownRepo
        THEN RepositoryConfig(r, <<"/srv/o-r">>, <<"deploy-o-r">>)
        ELSE RepositoryConfig(r, <<"/srv/g-p">>, <<"deploy-g-p">>)]

\* ---- request headers ----
NoHeaders == <<>>

Header(name, value) == [n \in {name} |-> value]

\* the event header (or custom marker) announcing provider p
MarkerHeader(p, event) ==
    CASE p = GITHUB -> Header(HEADER_GITHUB_EVENT, event)
      [] p = GITEE  -> Header(HEADER_GITEE_EVENT, event)
      [] p = GITLAB -> Header(HEADER_GITLAB_EVENT, event)
      [] p = CUSTOM -> Header(HEADER_CUSTOM_NAME, <<"custom", "-v2">>)

RECURSIVE MergeHeaders(_)
MergeHeaders(hs) ==
    IF hs = {} THEN NoHeaders
    ELSE LET h == CHOOSE x \in hs : TRUE IN h @@ MergeHeaders(hs \ {h})

MarkerSets == {M \in SUBSET Providers : Cardinality(M) <= MaxMarkers}

MarkerHeaders ==
    {MergeHeaders({MarkerHeader(p, e) : p \in M}) : M \in MarkerSets, e \in Events}
    \cup {MarkerHeader(CUSTOM, e) @@ Header(HEADER_CUSTOM_EVENT, e) : e \in Events}
    \cup {Header(HEADER_CUSTOM_NAME, <<"other">>), Header(HEADER_CUSTOM_NAME, EmptyStr)}

Timestamps == 12..MaxTimestamp

TimestampValues ==
    {FormatInt(t) : t \in Timestamps} \cup {<<"0">> \o FormatInt(12), <<"a">>}

\* Base64 of the HMAC-SHA256, as the test fixture builds it (not URL-encoded)
PlainGiteeSignature(timestamp_int, secret) ==
    B64Encode(HmacHexDigest("sha256", secret,
                            FormatInt(timestamp_int) \o <<"\n">> \o secret))

GithubSignature(payload, secret) == PREFIX \o HmacHexDigest("sha1", secret, payload)

GithubSignatureValues(body) ==
    {GithubSignature(body, GoodSecret), GithubSignature(EmptyObjectBody, GoodSecret),
     GithubSignature(body, WrongSecret), GithubSignature(body, EmptyStr),
     <<"sha1=", NonAsciiChar>>, <<"md5=", "x">>}

GiteeTokenValues ==
    {GoodSecret, WrongSecret, EmptyStr, <<NonAsciiChar>>,
     GiteeExpectedSignature(12, GoodSecret), PlainGiteeSignature(12, GoodSecret)}

TokenValues == {GoodSecret, WrongSecret, EmptyStr}

CredentialHeaders(body) ==
    {NoHeaders}
    \cup {Header(HEADER_GITHUB_SIGNATURE, v) : v \in GithubSignatureValues(body)}
    \cup {Header(HEADER_GITEE_TOKEN, v) : v \in GiteeTokenValues}
    \cup {Header(HEADER_GITEE_TOKEN, v) @@ Header(HEADER_GITEE_TIMESTAMP, ts) :
            v \in GiteeTokenValues, ts \in TimestampValues}
    \cup {Header(HEADER_GITLAB_TOKEN, v) : v \in TokenValues}
    \cup {Header(HEADER_CUSTOM_TOKEN, v) : v \in TokenValues}

\* the same headers with every name in lower case
LowerNames(headers) ==
    [n \in {Lower(k) : k \in DOMAIN headers} |->
        headers[CHOOSE k \in DOMAIN headers : Lower(k) = n]]

JsonContent(body) ==
    Header(HEADER_CONTENT_TYPE, <<CONTENT_TYPE_JSON>>)
    @@ Header(HEADER_CONTENT_LENGTH, FormatInt(Len(body)))

HttpMessage(headers, body) == [method |-> "POST", headers |-> headers, body |-> body]

\* well-formed JSON deliveries: every marker and credential combination
AuthMessages ==
    LET body == RepoBody(KnownRepo)
    IN  {HttpMessage(IF lower THEN LowerNames(m @@ c @@ JsonContent(body))
                     ELSE m @@ c @@ JsonContent(body), body) :
            m \in MarkerHeaders, c \in CredentialHeaders(body), lower \in BOOLEAN}

ContentHeaders(body) ==
    {JsonContent(body),
     Header(HEADER_CONTENT_TYPE, <<CONTENT_TYPE_JSON, "; charset=utf-8">>)
        @@ Header(HEADER_CONTENT_LENGTH, FormatInt(Len(body))),
     Header(HEADER_CONTENT_TYPE, <<CONTENT_TYPE_FORM_URLENCODED>>)
        @@ Header(HEADER_CONTENT_LENGTH, FormatInt(Len(body))),
     Header(HEADER_CONTENT_TYPE, <<CONTENT_TYPE_JSON, "-seq">>)
        @@ Header(HEADER_CONTENT_LENGTH, FormatInt(Len(body))),
     Header(HEADER_CONTENT_TYPE, <<"text/plain">>)
        @@ Header(HEADER_CONTENT_LENGTH, FormatInt(Len(body))),
     Header(HEADER_CONTENT_LENGTH, FormatInt(Len(body))),
     Header(HEADER_CONTENT_TYPE, <<CONTENT_TYPE_JSON>>)
        @@ Header(HEADER_CONTENT_LENGTH, <<"0">>),
     Header(HEADER_CONTENT_TYPE, <<CONTENT_TYPE_FORM_URLENCODED>>)
        @@ Header(HEADER_CONTENT_LENGTH, <<"0">>),
     Header(HEADER_CONTENT_TYPE, <<CONTENT_TYPE_JSON>>),
     Header(HEADER_CONTENT_TYPE, <<CONTENT_TYPE_JSON>>)
        @@ Header(HEADER_CONTENT_LENGTH, <<"a">>)}

Bodies ==
    {RepoBody(r) : r \in RepoNames}
    \cup {EmptyObjectBody, MalformedBody, FormBody, UndecodableBody, NullBody,
          ListBody, NonObjectUnderKeyBody, MissingLeafBody, ListLeafBody}

ContentMarkers ==
    {NoHeaders} \cup {MarkerHeader(p, <<"push">>) : p \in Providers}

ContentCredentials(body) ==
    {NoHeaders, Header(HEADER_GITHUB_SIGNATURE, GithubSignature(body, GoodSecret)),
     Header(HEADER_GITLAB_TOKEN, GoodSecret)}

\* every body and content header, sent bare, as GitHub, or as GitLab
ContentMessages ==
    UNION {{HttpMessage(m @@ c @@ ct, body) :
                m \in ContentMarkers, c \in ContentCredentials(body),
                ct \in ContentHeaders(body)} : body \in Bodies}

\* {} followed by bytes beyond Content-Length
TrailingBody == EmptyObjectBody \o <<"junk">>

\* GitHub deliveries whose Content-Length ends before the bytes sent do
TruncatedMessages ==
    {HttpMessage(MarkerHeader(GITHUB, <<"push">>) @@ c
                 @@ Header(HEADER_CONTENT_TYPE, <<CONTENT_TYPE_JSON>>)
                 @@ Header(HEADER_CONTENT_LENGTH, FormatInt(Len(EmptyObjectBody))),
                 TrailingBody) :
        c \in {NoHeaders,
               Header(HEADER_GITHUB_SIGNATURE, GithubSignature(EmptyObjectBody, GoodSecret)),
               Header(HEADER_GITHUB_SIGNATURE, GithubSignature(TrailingBody, GoodSecret))}}

Messages == AuthMessages \cup ContentMessages \cup TruncatedMessages

\* GET requests: bare, and dressed as a valid GitHub delivery
GetMessages ==
    LET body == RepoBody(KnownRepo)
    IN  {[HttpMessage(m @@ c @@ ct, b) EXCEPT !.method = "GET"] :
            m \in {NoHeaders, MarkerHeader(GITHUB, <<"push">>),
                   MarkerHeader(CUSTOM, <<"push">>)},
            c \in {NoHeaders, Header(HEADER_GITHUB_SIGNATURE, GithubSignature(body, GoodSecret))},
            ct \in {NoHeaders, JsonContent(body)},
            b \in {EmptyStr, body}}

(***************************************************************************)
(* State                                                                   *)
(***************************************************************************)
VARIABLES
    provider_configs,        \* WebhookRequestHandler._provider_configs (class)
    repository_configs,      \* WebhookRequestHandler._repository_configs (class)
    self_provider_configs,   \* self._provider_configs of the handler instance
    self_repository_configs, \* self._repository_configs of the handler instance
    http,                    \* the HTTP message the handler instance serves
    pc,                      \* position of the handler inside do_POST
    request,                 \* the WebhookRequest built by _parse_request
    provider_config,         \* do_POST's local provider_config
    repo_name,               \* do_POST's local repo_name
    responses,               \* status codes sent for the current message
    launched,                \* execute_deployment calls for the current message
    stages,                  \* stages of do_POST entered for the current message
    verification,            \* outcome of verify_signature, if it was called
    faulted,                 \* an earlier POST was answered 500
    os_dirs,                 \* the directories that exist on the host
    children,                \* the processes spawned by subprocess.Popen so far
    arrivals,                \* the connections made to the listening socket
    taken,                   \* the class tables at each accept from that socket
    served                   \* the outcome of each connection taken from it

vars == <<provider_configs, repository_configs, self_provider_configs,
          self_repository_configs, http, pc, request, provider_config,
          repo_name, responses, launched, stages, verification, faulted,
          os_dirs, children, arrivals, taken, served>>

NoMessage == HttpMessage(NoHeaders, EmptyStr)

NoRequest ==
    [provider |-> NoProvider, event |-> None, payload |-> EmptyStr,
     headers |-> NoHeaders, post_data |-> JNone, content_type |-> EmptyStr,
     content_length |-> 0]

NoConfig == ProviderConfig(NoProvider, FALSE, EmptyStr, <<>>)

NotCalled == [called |-> FALSE, result |-> Failure("")]
Called(result) == [called |-> TRUE, result |-> result]

Init ==
    /\ provider_configs \in ProviderTables
    /\ repository_configs = RepositoryTable
    /\ self_provider_configs = provider_configs
    /\ self_repository_configs = repository_configs
    /\ http = NoMessage
    /\ pc = "idle"
    /\ request = NoRequest
    /\ provider_config = NoConfig
    /\ repo_name = JNone
    /\ responses = <<>>
    /\ launched = <<>>
    /\ stages = <<>>
    /\ verification = NotCalled
    /\ faulted = FALSE
    /\ os_dirs = {}
    /\ children = <<>>
    /\ arrivals = <<>>
    /\ taken = <<>>
    /\ served = <<>>

\* what the handler of one request leaves alone outside its own instance
ServerUnchanged == UNCHANGED <<os_dirs, children, arrivals, taken, served>>
HostUnchanged == UNCHANGED <<os_dirs, children>>
QueueUnchanged == UNCHANGED <<arrivals, taken>>

\* what is recorded of a request that was taken from the listening socket
Outcome == [responses |-> responses, launched |-> launched]

ConfigUnchanged == UNCHANGED <<provider_configs, repository_configs>>
SelfUnchanged == UNCHANGED <<self_provider_configs, self_repository_configs, http>>

\* _send_error / _send_response followed by the return of do_POST
Respond(status) ==
    /\ responses' = Append(responses, status)
    /\ pc' = "done"

Enter(stage) == stages' = Append(stages, stage)

(***************************************************************************)
(* A POST arrives: BaseHTTPRequestHandler builds a handler instance        *)
(* (__init__ copies the class tables) and calls do_POST.                   *)
(***************************************************************************)
\* Receive with a handler that keeps the tables of the previous instance
Receive_StaleTables(message) ==
    /\ pc = "idle"
    /\ message.method = "POST"
    /\ http' = message
    /\ pc' = "parse"
    /\ UNCHANGED <<self_provider_configs, self_repository_configs>>
    /\ UNCHANGED <<request, provider_config, repo_name, responses, launched,
                   stages, verification, faulted>>
    /\ ConfigUnchanged

Receive(message) ==
    /\ pc = "idle"
    /\ message.method = "POST"
    /\ http' = message
    /\ self_provider_configs' = provider_configs
    /\ self_repository_configs' = repository_configs
    /\ pc' = "parse"
    /\ UNCHANGED <<request, provider_config, repo_name, responses, launched,
                   stages, verification, faulted>>
    /\ ConfigUnchanged

\* Finish keeping the request and the locals of a POST that was answered 500
Finish_FaultKeepsLocals ==
    /\ pc = "done"
    /\ pc' = "idle"
    /\ http' = NoMessage
    /\ IF responses = <<HTTP_INTERNAL_SERVER_ERROR>>
       THEN UNCHANGED <<request, provider_config, repo_name, verification>>
       ELSE /\ request' = NoRequest
            /\ provider_config' = NoConfig
            /\ repo_name' = JNone
            /\ verification' = NotCalled
    /\ responses' = <<>>
    /\ launched' = <<>>
    /\ stages' = <<>>
    /\ faulted' = (faulted \/ responses = <<HTTP_INTERNAL_SERVER_ERROR>>)
    /\ served' = IF Len(served) < Len(taken) THEN Append(served, Outcome) ELSE served
    /\ UNCHANGED <<self_provider_configs, self_repository_configs>>
    /\ ConfigUnchanged /\ HostUnchanged /\ QueueUnchanged

\* do_POST has returned: the handler instance and its locals are discarded and
\* HTTPServer.serve_forever accepts the next connection
Finish ==
    /\ pc = "done"
    /\ pc' = "idle"
    /\ http' = NoMessage
    /\ request' = NoRequest
    /\ provider_config' = NoConfig
    /\ repo_name' = JNone
    /\ responses' = <<>>
    /\ launched' = <<>>
    /\ stages' = <<>>
    /\ verification' = NotCalled
    /\ faulted' = (faulted \/ responses = <<HTTP_INTERNAL_SERVER_ERROR>>)
    /\ served' = IF Len(served) < Len(taken) THEN Append(served, Outcome) ELSE served
    /\ UNCHANGED <<self_provider_configs, self_repository_configs>>
    /\ ConfigUnchanged /\ HostUnchanged /\ QueueUnchanged

Min(a, b) == IF a < b THEN a ELSE b

\* do_GET answering like do_POST would
do_GET_Dispatching(message) ==
    /\ pc = "idle"
    /\ message.method = "GET"
    /\ http' = message
    /\ self_provider_configs' = provider_configs
    /\ self_repository_configs' = repository_configs
    /\ pc' = "parse"
    /\ UNCHANGED <<request, provider_config, repo_name, responses, launched,
                   stages, verification, faulted>>
    /\ ConfigUnchanged

\* a GET arrives: the handler instance is built and do_GET sends 403
do_GET(message) ==
    /\ pc = "idle"
    /\ message.method = "GET"
    /\ http' = message
    /\ self_provider_configs' = provider_configs
    /\ self_repository_configs' = repository_configs
    /\ Respond(HTTP_FORBIDDEN)
    /\ UNCHANGED <<request, provider_config, repo_name, launched, stages,
                   verification, faulted>>
    /\ ConfigUnchanged

\* parse_request handing over every byte sent instead of Content-Length bytes
parse_request_WholeBody(message, configs) ==
    LET content_type == MessageGet(message.headers, HEADER_CONTENT_TYPE, EmptyStr)
        content_length == ParseInt(MessageGet(message.headers, HEADER_CONTENT_LENGTH, <<"0">>))
        payload == SubSeq(message.body, 1, Min(content_length, Len(message.body)))
        post_data == IF Contains(content_type, CONTENT_TYPE_JSON)
                     THEN JsonLoads(payload)
                     ELSE IF Contains(content_type, CONTENT_TYPE_FORM_URLENCODED)
                     THEN FormLoads(payload)
                     ELSE JNone
        detected == parse_provider_and_event(message.headers, configs)
    IN  [provider |-> detected[1], event |-> detected[2], payload |-> message.body,
         headers |-> message.headers, post_data |-> post_data,
         content_type |-> content_type, content_length |-> content_length]

\* WebhookRequestHandler._parse_request: the WebhookRequest it returns
parse_request(message, configs) ==
    LET content_type == MessageGet(message.headers, HEADER_CONTENT_TYPE, EmptyStr)
        content_length == ParseInt(MessageGet(message.headers, HEADER_CONTENT_LENGTH, <<"0">>))
        payload == SubSeq(message.body, 1, Min(content_length, Len(message.body)))
        post_data == IF Contains(content_type, CONTENT_TYPE_JSON)
                     THEN JsonLoads(payload)
                     ELSE IF Contains(content_type, CONTENT_TYPE_FORM_URLENCODED)
                     THEN FormLoads(payload)
                     ELSE JNone
        detected == parse_provider_and_event(message.headers, configs)
    IN  [provider |-> detected[1], event |-> detected[2], payload |-> payload,
         headers |-> message.headers, post_data |-> post_data,
         content_type |-> content_type, content_length |-> content_length]

\* parse_outcome without the test of an empty body
parse_outcome_EmptyBodyRead(message) ==
    LET content_type == MessageGet(message.headers, HEADER_CONTENT_TYPE, EmptyStr)
        length_header == MessageGet(message.headers, HEADER_CONTENT_LENGTH, <<"0">>)
    IN  IF ~IsIntLiteral(length_header) THEN "ValueError"
        ELSE LET content_length == ParseInt(length_header)
                 payload == SubSeq(message.body, 1, Min(content_length, Len(message.body)))
             IN  IF Contains(content_type, CONTENT_TYPE_JSON)
                 THEN IF JsonParses(payload) THEN "ok" ELSE "RequestParseError"
                 ELSE IF Contains(content_type, CONTENT_TYPE_FORM_URLENCODED)
                 THEN IF Decodable(payload) THEN "ok" ELSE "RequestParseError"
                 ELSE "ok"

\* the outcome of _parse_request: "ValueError", "RequestParseError" or "ok"
parse_outcome(message) ==
    LET content_type == MessageGet(message.headers, HEADER_CONTENT_TYPE, EmptyStr)
        length_header == MessageGet(message.headers, HEADER_CONTENT_LENGTH, <<"0">>)
    IN  IF ~IsIntLiteral(length_header) THEN "ValueError"
        ELSE LET content_length == ParseInt(length_header)
                 payload == SubSeq(message.body, 1, Min(content_length, Len(message.body)))
             IN  IF content_length = 0 THEN "RequestParseError"
                 ELSE IF Contains(content_type, CONTENT_TYPE_JSON)
                 THEN IF JsonParses(payload) THEN "ok" ELSE "RequestParseError"
                 ELSE IF Contains(content_type, CONTENT_TYPE_FORM_URLENCODED)
                 THEN IF Decodable(payload) THEN "ok" ELSE "RequestParseError"
                 ELSE "ok"

\* do_POST step 1 (lines 78-89)
ParseRequest ==
    /\ pc = "parse"
    /\ Enter("parse")
    /\ LET outcome == parse_outcome(http)
       IN  CASE outcome = "ValueError" ->
                  /\ Respond(HTTP_INTERNAL_SERVER_ERROR)
                  /\ UNCHANGED request
             [] outcome = "RequestParseError" ->
                  /\ Respond(HTTP_BAD_REQUEST)
                  /\ UNCHANGED request
             [] OTHER ->
                  /\ request' = parse_request(http, self_provider_configs)
                  /\ IF request'.post_data.t = "none"
                     THEN Respond(HTTP_BAD_REQUEST)
                     ELSE /\ pc' = "identify"
                          /\ UNCHANGED responses
    /\ UNCHANGED <<provider_config, repo_name, launched, verification>>
    /\ ConfigUnchanged /\ SelfUnchanged /\ UNCHANGED faulted /\ ServerUnchanged

\* do_POST steps 2 and 3 (lines 91-99)
IdentifyProvider ==
    /\ pc = "identify"
    /\ Enter("identify")
    /\ IF request.provider = NoProvider
       THEN Respond(HTTP_PRECONDITION_FAILED)
       ELSE /\ pc' = "config"
            /\ UNCHANGED responses
    /\ UNCHANGED <<request, provider_config, repo_name, launched, verification>>
    /\ ConfigUnchanged /\ SelfUnchanged /\ UNCHANGED faulted /\ ServerUnchanged

\* FetchConfig switching verification off in the table once it was fetched
FetchConfig_MarksTable ==
    /\ pc = "config"
    /\ Enter("config")
    /\ IF request.provider \notin DOMAIN self_provider_configs
       THEN /\ Respond(HTTP_PRECONDITION_FAILED)
            /\ UNCHANGED <<provider_config, provider_configs>>
       ELSE /\ provider_config' = self_provider_configs[request.provider]
            /\ provider_configs' =
                  [provider_configs EXCEPT ![request.provider].verify = FALSE]
            /\ pc' = "event"
            /\ UNCHANGED responses
    /\ UNCHANGED <<request, repo_name, launched, verification, repository_configs>>
    /\ SelfUnchanged /\ UNCHANGED faulted /\ ServerUnchanged

\* do_POST lines 103-105, with the handler of lines 109-118
FetchConfig ==
    /\ pc = "config"
    /\ Enter("config")
    /\ IF request.provider \notin DOMAIN self_provider_configs
       THEN /\ Respond(HTTP_PRECONDITION_FAILED)
            /\ UNCHANGED provider_config
       ELSE /\ provider_config' = self_provider_configs[request.provider]
            /\ pc' = "event"
            /\ UNCHANGED responses
    /\ UNCHANGED <<request, repo_name, launched, verification>>
    /\ ConfigUnchanged /\ SelfUnchanged /\ UNCHANGED faulted /\ ServerUnchanged

\* handle_request step 1 (base.py 96-98, gitee.py 84-86)
CheckEvent ==
    /\ pc = "event"
    /\ Enter("event")
    /\ IF ~is_event_allowed(request.provider, request.event, provider_config)
       THEN Respond(HTTP_NOT_ACCEPTABLE)
       ELSE /\ pc' = "verify"
            /\ UNCHANGED responses
    /\ UNCHANGED <<request, provider_config, repo_name, launched, verification>>
    /\ ConfigUnchanged /\ SelfUnchanged /\ UNCHANGED faulted /\ ServerUnchanged

\* whether handle_request calls verify_signature
verification_performed(provider, req, config) ==
    IF provider = GITEE
    THEN DictGet(req.headers, "X-Gitee-Token") # None
    ELSE config.verify

\* VerifySignature without the raise of SignatureValidationError
VerifySignature_NoRaise ==
    /\ pc = "verify"
    /\ Enter("verify")
    /\ IF verification_performed(request.provider, request, provider_config)
       THEN verification' = Called(verify_signature(request.provider, request,
                                                    provider_config))
       ELSE UNCHANGED verification
    /\ pc' = "extract"
    /\ UNCHANGED <<request, provider_config, repo_name, launched, responses>>
    /\ ConfigUnchanged /\ SelfUnchanged /\ UNCHANGED faulted /\ ServerUnchanged

\* handle_request step 2 (base.py 100-104, gitee.py 88-97)
VerifySignature ==
    /\ pc = "verify"
    /\ Enter("verify")
    /\ IF verification_performed(request.provider, request, provider_config)
       THEN LET result == verify_signature(request.provider, request, provider_config)
            IN  /\ verification' = Called(result)
                /\ IF result.raised # "" THEN Respond(HTTP_INTERNAL_SERVER_ERROR)
                   ELSE IF ~result.is_valid THEN Respond(HTTP_UNAUTHORIZED)
                   ELSE /\ pc' = "extract"
                        /\ UNCHANGED responses
       ELSE /\ UNCHANGED verification
            /\ IF request.provider = GITEE /\ provider_config.verify
               THEN Respond(HTTP_UNAUTHORIZED)
               ELSE /\ pc' = "extract"
                    /\ UNCHANGED responses
    /\ UNCHANGED <<request, provider_config, repo_name, launched>>
    /\ ConfigUnchanged /\ SelfUnchanged /\ UNCHANGED faulted /\ ServerUnchanged

\* ExtractRepository without the catch-all of do_POST: a raise ends the request
ExtractRepository_Uncaught ==
    /\ pc = "extract"
    /\ Enter("extract")
    /\ LET extracted == extract_repository(request.provider, request, provider_config)
       IN  IF extracted.raised # ""
           THEN /\ pc' = "done"
                /\ UNCHANGED <<repo_name, responses>>
           ELSE /\ repo_name' = extracted.value
                /\ pc' = "lookup"
                /\ UNCHANGED responses
    /\ UNCHANGED <<request, provider_config, launched, verification>>
    /\ ConfigUnchanged /\ SelfUnchanged /\ UNCHANGED faulted /\ ServerUnchanged

\* handle_request step 3 (base.py 107, gitee.py 100)
ExtractRepository ==
    /\ pc = "extract"
    /\ Enter("extract")
    /\ LET extracted == extract_repository(request.provider, request, provider_config)
       IN  IF extracted.raised # ""
           THEN /\ Respond(HTTP_INTERNAL_SERVER_ERROR)
                /\ UNCHANGED repo_name
           ELSE /\ repo_name' = extracted.value
                /\ pc' = "lookup"
                /\ UNCHANGED responses
    /\ UNCHANGED <<request, provider_config, launched, verification>>
    /\ ConfigUnchanged /\ SelfUnchanged /\ UNCHANGED faulted /\ ServerUnchanged

\* 'if repo_name:' on an extracted value
RepoNameTruthy(value) == value.t \in {"str", "list", "obj"} /\ value.v # <<>>

\* dict.get(key) raises TypeError on a list or a dict
Unhashable(value) == value.t \in {"list", "obj"}

\* do_POST lines 121-126 and 130-132
LookupRepository ==
    /\ pc = "lookup"
    /\ Enter("lookup")
    /\ IF RepoNameTruthy(repo_name) /\ Unhashable(repo_name)
       THEN Respond(HTTP_INTERNAL_SERVER_ERROR)
       ELSE IF /\ RepoNameTruthy(repo_name)
               /\ repo_name.t = "str"
               /\ repo_name.v \in DOMAIN self_repository_configs
       THEN /\ pc' = "launch"
            /\ UNCHANGED responses
       ELSE Respond(HTTP_NOT_FOUND)
    /\ UNCHANGED <<request, provider_config, repo_name, launched, verification>>
    /\ ConfigUnchanged /\ SelfUnchanged /\ UNCHANGED faulted /\ ServerUnchanged

\* the process subprocess.Popen starts: stdout and stderr are pipes whose
\* read ends the dispatcher holds; written counts what sits in the pipe
Child(call) == call @@ [state |-> "running", written |-> 0]

\* subprocess.Popen(cmd, cwd=cwd, shell=True, ...): what it raises, if anything
PopenRaises(call, dirs) ==
    IF NUL \in Range(call.cmd) \/ NUL \in Range(call.cwd) THEN "ValueError"
    ELSE IF call.cwd \notin dirs THEN "OSError"
    ELSE ""

\* execute_deployment(repo_name, repo_config.cwd, repo_config.cmd), line 128:
\* OSError and SubprocessError are logged by the executor, anything else
\* reaches the catch-all of do_POST
ExecuteDeployment ==
    /\ pc = "launch"
    /\ Enter("launch")
    /\ LET repo_config == self_repository_configs[repo_name.v]
           call == [repo_name |-> repo_name.v, cwd |-> repo_config.cwd,
                    cmd |-> repo_config.cmd]
           raised == PopenRaises(call, os_dirs)
       IN  /\ launched' = Append(launched, call)
           /\ children' = IF raised = "" THEN Append(children, Child(call))
                          ELSE children
           /\ IF raised \in {"", "OSError"}
              THEN /\ pc' = "respond"
                   /\ UNCHANGED responses
              ELSE Respond(HTTP_INTERNAL_SERVER_ERROR)
    /\ UNCHANGED <<request, provider_config, repo_name, verification>>
    /\ ConfigUnchanged /\ SelfUnchanged /\ UNCHANGED faulted
    /\ QueueUnchanged /\ UNCHANGED <<os_dirs, served>>

\* self._send_response(HTTP_OK), line 129
SendOK ==
    /\ pc = "respond"
    /\ Enter("respond")
    /\ Respond(HTTP_OK)
    /\ UNCHANGED <<request, provider_config, repo_name, launched, verification>>
    /\ ConfigUnchanged /\ SelfUnchanged /\ UNCHANGED faulted /\ ServerUnchanged

\* a client sends any one of the messages
Accept ==
    /\ pc = "idle"
    /\ \E message \in Messages : Receive(message)
    /\ ServerUnchanged

\* a client sends any one of the GET requests
AcceptGet ==
    /\ pc = "idle"
    /\ \E message \in GetMessages : do_GET(message)
    /\ ServerUnchanged

Next ==
    \/ Accept
    \/ AcceptGet
    \/ ParseRequest
    \/ IdentifyProvider
    \/ FetchConfig
    \/ CheckEvent
    \/ VerifySignature
    \/ ExtractRepository
    \/ LookupRepository
    \/ ExecuteDeployment
    \/ SendOK
    \/ Finish

Spec == Init /\ [][Next]_vars

(***************************************************************************)
(* The server as a whole: HTTPServer.serve_forever takes one connection    *)
(* at a time from the listening socket and runs its handler to the end,    *)
(* while the children spawned for earlier requests keep running.           *)
(***************************************************************************)
MaxDeliveries == 2
PipeCapacity == 1

LongSecret == <<"s3", "cret">>

\* a table whose gitlab section verifies against LongSecret
ServerProviderTable(github_verify) ==
    [DefaultTable(TRUE, LongSecret, <<>>) EXCEPT ![GITHUB].verify = github_verify]

\* a cmd option with a NUL character in it, as ConfigParser reads it from a file
NulRepositoryTable ==
    [RepositoryTable EXCEPT ![KnownRepo].cmd = <<"deploy", NUL, "-o-r">>]

Tables(providers, repositories) ==
    [provider_configs |-> providers, repository_configs |-> repositories]

ServerTables ==
    {Tables(ServerProviderTable(FALSE), RepositoryTable),
     Tables(ServerProviderTable(TRUE), NulRepositoryTable)}

Delivery(headers) ==
    LET body == RepoBody(KnownRepo)
    IN  HttpMessage(headers @@ JsonContent(body), body)

GitlabDelivery(token) ==
    Delivery(MarkerHeader(GITLAB, <<"push">>) @@ Header(HEADER_GITLAB_TOKEN, token))

\* tokens as long as LongSecret that differ from it at the first or the last place
NearTokens == {<<"xx", "cret">>, <<"s3", "xxxx">>}

Deliveries ==
    {Delivery(MarkerHeader(GITHUB, <<"push">>)),
     [Delivery(MarkerHeader(GITHUB, <<"push">>)) EXCEPT !.method = "GET"],
     GitlabDelivery(LongSecret)}
    \cup {GitlabDelivery(token) : token \in NearTokens}

ServerInit ==
    /\ \E t \in ServerTables :
          /\ provider_configs = t.provider_configs
          /\ repository_configs = t.repository_configs
    /\ self_provider_configs = provider_configs
    /\ self_repository_configs = repository_configs
    /\ http = NoMessage
    /\ pc = "idle"
    /\ request = NoRequest
    /\ provider_config = NoConfig
    /\ repo_name = JNone
    /\ responses = <<>>
    /\ launched = <<>>
    /\ stages = <<>>
    /\ verification = NotCalled
    /\ faulted = FALSE
    /\ os_dirs = {RepositoryTable[KnownRepo].cwd}
    /\ children = <<>>
    /\ arrivals = <<>>
    /\ taken = <<>>
    /\ served = <<>>

HandlerUnchanged ==
    UNCHANGED <<self_provider_configs, self_repository_configs, http, pc, request,
                provider_config, repo_name, responses, launched, stages,
                verification, faulted>>

\* a client connects and sends a delivery; it waits in the listen queue
Arrive ==
    /\ Len(arrivals) < MaxDeliveries
    /\ \E message \in Deliveries : arrivals' = Append(arrivals, message)
    /\ HandlerUnchanged /\ ConfigUnchanged /\ HostUnchanged
    /\ UNCHANGED <<taken, served>>

\* serve_forever takes the next connection once the previous handler returned;
\* BaseHTTPRequestHandler dispatches on the method
Serve ==
    /\ pc = "idle"
    /\ Len(taken) < Len(arrivals)
    /\ LET message == arrivals[Len(taken) + 1]
       IN  IF message.method = "GET" THEN do_GET(message) ELSE Receive(message)
    /\ taken' = Append(taken, Tables(provider_configs, repository_configs))
    /\ HostUnchanged /\ UNCHANGED <<arrivals, served>>

ChildUnchanged ==
    /\ HandlerUnchanged /\ ConfigUnchanged /\ QueueUnchanged
    /\ UNCHANGED <<os_dirs, served>>

\* a running child writes to its stdout or stderr while the pipe has room
ChildWrite ==
    /\ \E i \in DOMAIN children :
          /\ children[i].state = "running"
          /\ children[i].written < PipeCapacity
          /\ children' = [children EXCEPT ![i].written = @ + 1]
    /\ ChildUnchanged

\* a running child writes to a full pipe: nobody reads it, the write never returns
ChildBlock ==
    /\ \E i \in DOMAIN children :
          /\ children[i].state = "running"
          /\ children[i].written = PipeCapacity
          /\ children' = [children EXCEPT ![i].state = "blocked"]
    /\ ChildUnchanged

\* a running child exits
ChildExit ==
    /\ \E i \in DOMAIN children :
          /\ children[i].state = "running"
          /\ children' = [children EXCEPT ![i].state = "exited"]
    /\ ChildUnchanged

\* WebhookRequestHandler.configure called again with other tables
Configure ==
    /\ \E t \in ServerTables :
          /\ t # Tables(provider_configs, repository_configs)
          /\ provider_configs' = t.provider_configs
          /\ repository_configs' = t.repository_configs
    /\ HandlerUnchanged /\ ServerUnchanged

ServerNext ==
    \/ Arrive
    \/ Serve
    \/ ParseRequest
    \/ IdentifyProvider
    \/ FetchConfig
    \/ CheckEvent
    \/ VerifySignature
    \/ ExtractRepository
    \/ LookupRepository
    \/ ExecuteDeployment
    \/ SendOK
    \/ Finish
    \/ ChildWrite
    \/ ChildBlock
    \/ ChildExit
    \/ Configure

ServerSpec == ServerInit /\ [][ServerNext]_vars

(***************************************************************************)
(* Properties                                                              *)
(***************************************************************************)
StageOrder ==
    <<"parse", "identify", "config", "event", "verify", "extract", "lookup",
      "launch", "respond">>

\* the stages entered so far are the first stages of StageOrder, in order
StagesInOrder ==
    /\ Len(stages) <= Len(StageOrder)
    /\ stages = SubSeq(StageOrder, 1, Len(stages))

Entered(stage) == \E i \in 1..Len(stages) : stages[i] = stage

\* the stage was entered and did not end the request
Passed(stage) ==
    \E i \in 1..Len(stages) :
        stages[i] = stage /\ (i < Len(stages) \/ pc \notin {"done"})

Answered == pc = "done"
Status == responses[1]

ErrorStatuses ==
    {HTTP_BAD_REQUEST, HTTP_UNAUTHORIZED, HTTP_NOT_FOUND, HTTP_NOT_ACCEPTABLE,
     HTTP_PRECONDITION_FAILED, HTTP_INTERNAL_SERVER_ERROR}

C6_GithubVerifier ==
    (verification.called /\ request.provider = GITHUB) =>
        LET signature == DictGet(request.headers, "X-Hub-Signature")
            secret == provider_config.secret
            result == verification.result
        IN  /\ result.is_valid <=>
                  /\ signature # None
                  /\ secret # EmptyStr
                  /\ signature = <<"sha1=">> \o HmacHexDigest("sha1", secret, request.payload)
            /\ signature = None => result.error_message = "Missing signature"
            /\ (signature # None /\ secret = EmptyStr) =>
                  result.error_message = "Secret not configured"
            /\ (signature # None /\ secret # EmptyStr /\ signature[1] # "sha1=") =>
                  result.error_message = "Invalid signature format"
            /\ \A other \in {WrongSecret, EmptyStr} :
                  (other # secret /\ signature = GithubSignature(request.payload, other)) =>
                      ~result.is_valid
            /\ (signature = GithubSignature(EmptyObjectBody, secret)
                /\ request.payload # EmptyObjectBody) => ~result.is_valid

C6_Witness ==
    /\ verification.called /\ request.provider = GITHUB
    /\ verification.result.is_valid
    /\ DictGet(request.headers, "X-Hub-Signature")
          = GithubSignature(request.payload, GoodSecret)

ReceivedCredential ==
    CASE request.provider = GITHUB -> MessageGet(http.headers, "X-Hub-Signature", None)
      [] request.provider = GITEE  -> MessageGet(http.headers, "X-Gitee-Token", None)
      [] request.provider = GITLAB -> MessageGet(http.headers, "X-Gitlab-Token", None)
      [] request.provider = CUSTOM ->
            IF provider_config.header_token = "" THEN None
            ELSE MessageGet(http.headers, provider_config.header_token, None)
      [] OTHER -> None

\* C2: for GitHub, GitLab and Custom, with verify true a request whose
\* signature/token header is missing or whose value (any string) fails
\* verification is answered 401 and launches nothing; with verify false
\* verify_signature is not called and the request proceeds to extraction.
C2_Original ==
    (Answered /\ Entered("verify") /\ request.provider \in {GITHUB, GITLAB, CUSTOM}) =>
        LET secret == provider_config.secret
            genuine ==
                IF request.provider = GITHUB
                THEN /\ secret # EmptyStr
                     /\ ReceivedCredential = GithubSignature(request.payload, secret)
                ELSE ReceivedCredential = secret
        IN  /\ (provider_config.verify /\ (ReceivedCredential = None \/ ~genuine)) =>
                  /\ responses = <<HTTP_UNAUTHORIZED>>
                  /\ launched = <<>>
            /\ ~provider_config.verify =>
                  /\ ~verification.called
                  /\ Entered("extract")

\* Base64 of HMAC-SHA256 (key S) over T + newline + S, T as sent
Base64GiteeSignature(T, S) ==
    B64Encode(HmacHexDigest("sha256", S, T \o <<"\n">> \o S))

\* C3: a Gitee request that carries a token header has it validated and an
\* invalid token yields 401 whatever config.verify is; without a token header
\* it is rejected with 401 iff config.verify; no request presenting a token
\* the secret does not admit reaches deployment.
C3_Original ==
    (Answered /\ Entered("verify") /\ request.provider = GITEE) =>
        LET secret == provider_config.secret
            token == ReceivedCredential
            T == MessageGet(http.headers, "X-Gitee-Timestamp", None)
            admitted ==
                \/ token = secret
                \/ /\ T # None /\ IsIntLiteral(T)
                   /\ token \in {Base64GiteeSignature(T, secret),
                                 QuotePlus(Base64GiteeSignature(T, secret))}
        IN  /\ token # None =>
                  /\ verification.called
                  /\ ~admitted => responses = <<HTTP_UNAUTHORIZED>>
            /\ token = None =>
                  IF provider_config.verify
                  THEN responses = <<HTTP_UNAUTHORIZED>>
                  ELSE Entered("extract")
            /\ (token # None /\ ~admitted) => launched = <<>>

\* C4: the Gitee verifier (a) accepts a token equal to the secret, with or
\* without timestamp; (b) otherwise, given a timestamp, is valid exactly when
\* the token is the signature recomputed from timestamp and secret, an invalid
\* result being an "Invalid signature"; (c) otherwise fails as
\* "Invalid password".
C4_Original ==
    (verification.called /\ request.provider = GITEE) =>
        LET secret == provider_config.secret
            token == DictGet(request.headers, "X-Gitee-Token")
            T == DictGet(request.headers, "X-Gitee-Timestamp")
            result == verification.result
        IN  /\ token = secret => result.is_valid
            /\ (token # secret /\ T # None) =>
                  /\ result.is_valid <=> token = Base64GiteeSignature(T, secret)
                  /\ ~result.is_valid => result.error_message = "Invalid signature"
            /\ (token # secret /\ T = None) =>
                  /\ ~result.is_valid
                  /\ result.error_message = "Invalid password"

\* C5: a Gitee request whose X-Gitee-Timestamp is T and whose X-Gitee-Token is
\* the Base64 of HMAC-SHA256 (key S) over T + newline + S is verified as valid
\* and is not answered 401.
C5_Original ==
    (/\ Answered /\ Entered("verify") /\ request.provider = GITEE
     /\ DictGet(request.headers, "X-Gitee-Timestamp") # None
     /\ DictGet(request.headers, "X-Gitee-Token")
           = Base64GiteeSignature(DictGet(request.headers, "X-Gitee-Timestamp"),
                                  provider_config.secret)) =>
        /\ verification.called
        /\ verification.result.is_valid
        /\ responses # <<HTTP_UNAUTHORIZED>>

\* C7: for GitLab and Custom, verification succeeds exactly when the token
\* received in the token header equals the configured secret; a Custom request
\* with no token or a wrong one is never verified as valid, whatever the
\* custom header settings (an unset header_token included).
C7_Original ==
    (verification.called /\ request.provider \in {GITLAB, CUSTOM}) =>
        LET name == IF request.provider = GITLAB THEN "X-Gitlab-Token"
                    ELSE provider_config.header_token
            token == IF name = "" THEN None ELSE DictGet(request.headers, name)
        IN  verification.result.is_valid <=>
                (token # None /\ token = provider_config.secret)

\* the status the failing stage answers with
StageStatus(stage) ==
    CASE stage = "parse"    -> HTTP_BAD_REQUEST
      [] stage = "identify" -> HTTP_PRECONDITION_FAILED
      [] stage = "config"   -> HTTP_PRECONDITION_FAILED
      [] stage = "event"    -> HTTP_NOT_ACCEPTABLE
      [] stage = "verify"   -> HTTP_UNAUTHORIZED
      [] stage = "extract"  -> HTTP_NOT_FOUND
      [] stage = "lookup"   -> HTTP_NOT_FOUND
      [] OTHER              -> HTTP_OK

\* C8: the stages run in the order parse, detection, configuration fetch,
\* event filter, verification, extraction, lookup, launch, response, and the
\* status is that of the first failing stage (400, 412, 412, 406, 401, 404,
\* 404); a filtered event with an invalid signature is answered 406.
C8_Original ==
    /\ StagesInOrder
    /\ (Answered /\ http.method = "POST") =>
          /\ Len(responses) = 1
          /\ Status = StageStatus(stages[Len(stages)])
          /\ (Status = HTTP_OK) = (stages = StageOrder)

DetectionOrder == <<GITHUB, GITEE, GITLAB, CUSTOM>>

\* the request carries the marker of provider p; the custom marker is the
\* configured header with a value starting with the expected value
MarkerPresent(p, non_empty) ==
    CASE p = GITHUB -> MessageGet(http.headers, "X-GitHub-Event", None) # None
      [] p = GITEE  -> MessageGet(http.headers, "X-Gitee-Event", None) # None
      [] p = GITLAB -> MessageGet(http.headers, "X-Gitlab-Event", None) # None
      [] p = CUSTOM ->
            /\ CUSTOM \in DOMAIN provider_configs
            /\ provider_configs[CUSTOM].header_name # ""
            /\ LET value == MessageGet(http.headers,
                                       provider_configs[CUSTOM].header_name, None)
               IN  /\ value # None
                   /\ StartsWith(value, provider_configs[CUSTOM].header_value)
                   /\ non_empty => value # EmptyStr

MarkerEvent(p) ==
    CASE p = GITHUB -> MessageGet(http.headers, "X-GitHub-Event", None)
      [] p = GITEE  -> MessageGet(http.headers, "X-Gitee-Event", None)
      [] p = GITLAB -> MessageGet(http.headers, "X-Gitlab-Event", None)
      [] p = CUSTOM ->
            IF provider_configs[CUSTOM].header_event = "" THEN None
            ELSE MessageGet(http.headers, provider_configs[CUSTOM].header_event, None)

DetectionClaim(non_empty) ==
    Entered("identify") =>
        IF \E i \in 1..4 : MarkerPresent(DetectionOrder[i], non_empty)
        THEN LET first == CHOOSE i \in 1..4 :
                            /\ MarkerPresent(DetectionOrder[i], non_empty)
                            /\ \A j \in 1..(i - 1) :
                                  ~MarkerPresent(DetectionOrder[j], non_empty)
             IN  /\ request.provider = DetectionOrder[first]
                 /\ request.event = MarkerEvent(DetectionOrder[first])
        ELSE /\ request.provider = NoProvider
             /\ Answered =>
                   /\ responses = <<HTTP_PRECONDITION_FAILED>>
                   /\ ~verification.called
                   /\ launched = <<>>

\* C10 as stated: detection checks the GitHub, Gitee and GitLab event headers
\* and then the custom marker (the configured header present with a value that
\* starts with the expected value); the first match fixes provider and event;
\* with no match the provider is null and the POST is answered 412.
C10_Original == DetectionClaim(FALSE)

\* C10 amended: as C10_Original, the custom marker being the configured header
\* present with a non-empty value that starts with the expected value.
C10_DetectionOrder == DetectionClaim(TRUE)

C10_Witness ==
    /\ Entered("identify")
    /\ MarkerPresent(GITEE, TRUE) /\ MarkerPresent(GITLAB, TRUE)
    /\ request.provider = GITEE

\* C11: a request detected as custom whose event is null because no custom
\* event header is configured passes the event filter whatever handle_events
\* holds, and is never answered 406.
C11_Original ==
    (/\ Entered("event")
     /\ request.provider = CUSTOM
     /\ provider_config.header_event = "") =>
        /\ request.event = None
        /\ Passed("event")
        /\ Answered => Status # HTTP_NOT_ACCEPTABLE

\* C12: changing only the letter case of the names of a request's headers
\* changes neither the detected provider and event nor whether and how the
\* request is verified.
C12_Original ==
    Entered("identify") =>
        LET lowered == [request EXCEPT !.headers = LowerNames(request.headers)]
        IN  /\ parse_provider_and_event(LowerNames(http.headers), self_provider_configs)
                  = <<request.provider, request.event>>
            /\ verification.called =>
                  /\ verification_performed(request.provider, lowered, provider_config)
                  /\ verify_signature(request.provider, lowered, provider_config)
                        = verification.result

\* the Content-Length bytes of the message being served
RawBytes ==
    SubSeq(http.body, 1,
           Min(ParseInt(MessageGet(http.headers, "Content-Length", <<"0">>)),
               Len(http.body)))

\* C13: the payload of the request is exactly the Content-Length bytes read,
\* whatever the content type and the parsed body, and a signature is verified
\* over those bytes.
C13_RawPayload ==
    Entered("identify") =>
        /\ request.payload = RawBytes
        /\ (verification.called /\ request.provider = GITHUB) =>
              verification.result =
                  GithubVerify(RawBytes, DictGet(http.headers, "X-Hub-Signature"),
                               provider_config.secret)

C13_Witness ==
    /\ verification.called
    /\ request.provider = GITHUB
    /\ verification.result.is_valid
    /\ Len(request.payload) < Len(http.body)
    /\ request.post_data = JObj(<<>>)

\* the message being served has no Content-Length or a zero one
EmptyLength ==
    LET length_header == MessageGet(http.headers, "Content-Length", None)
    IN  \/ length_header = None
        \/ IsIntLiteral(length_header) /\ ParseInt(length_header) = 0

\* C14: a POST whose Content-Length is missing or zero is answered 400
\* whatever its other headers; no detection result is used, no verification
\* is run and nothing is launched for it.
C14_EmptyBodyRejected ==
    (http # NoMessage /\ http.method = "POST" /\ EmptyLength) =>
        /\ Len(stages) <= 1
        /\ request = NoRequest
        /\ ~verification.called
        /\ launched = <<>>
        /\ Answered => responses = <<HTTP_BAD_REQUEST>>

C14_Witness ==
    /\ Answered /\ EmptyLength
    /\ responses = <<HTTP_BAD_REQUEST>>
    /\ GITHUB \in DOMAIN provider_configs
    /\ MessageGet(http.headers, "X-GitHub-Event", None) # None
    /\ MessageGet(http.headers, "X-Hub-Signature", None)
          = GithubSignature(http.body, provider_configs[GITHUB].secret)
    /\ provider_configs[GITHUB].secret # EmptyStr

\* the media type of a Content-Type value, its parameters dropped
MediaType(content_type) ==
    IF Len(content_type) = 2 /\ content_type[2] = "; charset=utf-8"
    THEN <<content_type[1]>>
    ELSE content_type

\* C15: a non-empty body is parsed as JSON when the content type is
\* application/json and as a flat map when it is
\* application/x-www-form-urlencoded, and a decodable body of either type is
\* never rejected with 400; any other or absent content type, malformed JSON
\* or undecodable bytes yield 400 at the parse stage, before detection.
C15_Original ==
    (/\ Entered("parse")
     /\ ~EmptyLength
     /\ IsIntLiteral(MessageGet(http.headers, "Content-Length", None))) =>
        LET media == MediaType(MessageGet(http.headers, "Content-Type", EmptyStr))
        IN  IF media = <<"application/json">> /\ JsonParses(RawBytes)
            THEN /\ Passed("parse")
                 /\ request.post_data = JsonLoads(RawBytes)
            ELSE IF media = <<"application/x-www-form-urlencoded">> /\ Decodable(RawBytes)
            THEN /\ Passed("parse")
                 /\ request.post_data = FormLoads(RawBytes)
            ELSE /\ Answered
                 /\ responses = <<HTTP_BAD_REQUEST>>
                 /\ stages = <<"parse">>

\* the string at outer.inner of a parsed body, or null
StringAt(post_data, outer, inner) ==
    IF /\ post_data.t = "obj"
       /\ outer \in DOMAIN post_data.v
       /\ post_data.v[outer].t = "obj"
       /\ inner \in DOMAIN post_data.v[outer].v
       /\ post_data.v[outer].v[inner].t = "str"
    THEN post_data.v[outer].v[inner]
    ELSE JNone

\* C16: for GitHub, GitLab and Gitee, identifier extraction on a parsed body
\* returns the string at the fixed path or null and never raises; a body
\* without a string there ends with 404, never with 500.
C16_Original ==
    (Entered("extract") /\ request.provider \in {GITHUB, GITEE, GITLAB}) =>
        LET expected == IF request.provider = GITLAB
                        THEN StringAt(request.post_data, "project", "path_with_namespace")
                        ELSE StringAt(request.post_data, "repository", "full_name")
        IN  /\ Passed("extract")
            /\ repo_name = expected
            /\ (Answered /\ expected = JNone) => responses = <<HTTP_NOT_FOUND>>

\* the value reached by following identifier_path through post_data, each
\* intermediate value being an object that holds the next segment
Reached(post_data, identifier_path) ==
    LET parts == SplitDots(identifier_path)
        missing == [t |-> "missing", v |-> None]
        chain[i \in 0..Len(parts)] ==
            IF i = 0 THEN post_data
            ELSE IF /\ chain[i - 1].t = "obj"
                    /\ Len(parts[i]) = 1
                    /\ parts[i][1] \in DOMAIN chain[i - 1].v
                 THEN chain[i - 1].v[parts[i][1]]
                 ELSE missing
    IN  chain[Len(parts)]

\* C17: custom identifier extraction yields the value reached through
\* identifier_path exactly when every intermediate value is an object holding
\* the next segment and the final value is a string; otherwise, and for an
\* empty identifier_path, it yields null.
C17_CustomExtraction ==
    (Entered("extract") /\ request.provider = CUSTOM) =>
        /\ Passed("extract")
        /\ repo_name =
              IF /\ provider_config.identifier_path # EmptyStr
                 /\ Reached(request.post_data, provider_config.identifier_path).t = "str"
              THEN Reached(request.post_data, provider_config.identifier_path)
              ELSE JNone

C17_Witness ==
    /\ Passed("extract") /\ request.provider = CUSTOM
    /\ Len(SplitDots(provider_config.identifier_path)) = 2
    /\ repo_name = JStr(KnownRepo)

\* C18: the repository is looked up by exact equality with the extracted
\* identifier; when an entry is found the launch uses that entry's command and
\* working directory; when the identifier is null, empty or not a key of the
\* table, the response is 404 and nothing is launched.
C18_Original ==
    (Answered /\ Passed("extract")) =>
        IF /\ repo_name.t = "str"
           /\ repo_name.v # EmptyStr
           /\ repo_name.v \in DOMAIN repository_configs
        THEN /\ responses = <<HTTP_OK>>
             /\ launched = <<[repo_name |-> repo_name.v,
                              cwd |-> repository_configs[repo_name.v].cwd,
                              cmd |-> repository_configs[repo_name.v].cmd]>>
        ELSE /\ responses = <<HTTP_NOT_FOUND>>
             /\ launched = <<>>

\* C19: a POST whose detected provider has no configuration is answered 412
\* before event filtering, verification and launch; with the tables the loader
\* produces, a request bearing the event header of a provider that has no
\* section in the configuration file reaches no deployment.
C19_Original ==
    /\ (Entered("config") /\ request.provider \notin DOMAIN provider_configs) =>
          /\ Answered
          /\ responses = <<HTTP_PRECONDITION_FAILED>>
          /\ stages = <<"parse", "identify", "config">>
          /\ ~verification.called
          /\ launched = <<>>
    /\ \A parser \in ConfigFiles :
          (/\ provider_configs = load_all_provider_configs(parser)
           /\ request.provider \in Providers \ DOMAIN parser) =>
              launched = <<>>

C24_ConfigurationReadOnly ==
    [][/\ provider_configs' = provider_configs
       /\ repository_configs' = repository_configs
       /\ pc' # "idle" => /\ self_provider_configs' = provider_configs
                          /\ self_repository_configs' = repository_configs]_vars

C24_Witness ==
    /\ Answered /\ http.method = "POST"
    /\ responses = <<HTTP_UNAUTHORIZED>>
    /\ self_provider_configs = provider_configs
    /\ provider_configs[request.provider].verify

\* C26: every GET, whatever its headers and body, is answered 403 and causes
\* no parsing, detection, verification or launch.
C26_GetForbidden ==
    (http # NoMessage /\ http.method = "GET") =>
        /\ Answered
        /\ responses = <<HTTP_FORBIDDEN>>
        /\ stages = <<>>
        /\ request = NoRequest
        /\ ~verification.called
        /\ launched = <<>>

C26_Witness ==
    /\ http.method = "GET" /\ Answered
    /\ responses = <<HTTP_FORBIDDEN>>
    /\ MessageGet(http.headers, "X-GitHub-Event", None) # None
    /\ MessageGet(http.headers, "X-Hub-Signature", None)
          = GithubSignature(http.body, GoodSecret)

\* C27: when verification is performed against an empty configured secret, no
\* request is verified as valid, for any provider.
C27_Original ==
    (verification.called /\ provider_config.secret = EmptyStr) =>
        ~verification.result.is_valid

\* C28: a POST whose Content-Length is not a non-negative integer is answered
\* 400 at the parse stage, never 500; nothing is read or launched for it.
C28_Original ==
    (/\ Answered /\ http.method = "POST"
     /\ MessageGet(http.headers, "Content-Length", None) # None
     /\ ~IsIntLiteral(MessageGet(http.headers, "Content-Length", None))) =>
        /\ responses = <<HTTP_BAD_REQUEST>>
        /\ stages = <<"parse">>
        /\ request = NoRequest
        /\ launched = <<>>

\* C29: every POST ends with exactly one response, sent at the end, whose
\* status is one of 200, 400, 401, 404, 406, 412, 500; a 200 is sent only
\* after the launch attempt of that request has returned.
C29_ExactlyOneResponse ==
    http.method = "POST" =>
        /\ ~Answered => responses = <<>>
        /\ Answered =>
              /\ Len(responses) = 1
              /\ Status \in {HTTP_OK, HTTP_BAD_REQUEST, HTTP_UNAUTHORIZED,
                             HTTP_NOT_FOUND, HTTP_NOT_ACCEPTABLE,
                             HTTP_PRECONDITION_FAILED, HTTP_INTERNAL_SERVER_ERROR}
              /\ Status = HTTP_OK =>
                    /\ Len(launched) = 1
                    /\ \E i \in 1..Len(stages) :
                          stages[i] = "launch" /\ i < Len(stages)

C29_Witness ==
    /\ http.method = "POST" /\ Answered
    /\ responses = <<HTTP_INTERNAL_SERVER_ERROR>>
    /\ stages[Len(stages)] = "extract"

\* the launches a delivery taken from the listen queue has made
Accepted == {i \in DOMAIN served : served[i].launched # <<>>}

\* C21: K accepted deliveries for one repository cause exactly K launches of
\* its command and K 200 responses; none is dropped, coalesced, or held back
\* until a deployment started by another delivery has exited.
C21_Original ==
    /\ \A i \in Accepted :
          /\ served[i].responses = <<HTTP_OK>>
          /\ Len(served[i].launched) = 1
    /\ Len(children) = Cardinality(Accepted) + Len(launched)

\* C22: a launch that fails, for whatever reason, is only logged: the request
\* that triggered it is still answered 200.
C22_Original ==
    (/\ Answered
     /\ launched # <<>>
     /\ PopenRaises(launched[1], os_dirs) # "") =>
        responses = <<HTTP_OK>>

\* C23: the dispatcher answers 200 without waiting for the child and never
\* stops or blocks a child it spawned, the pipes it opened on the child's
\* standard output and error included.
C23_Original ==
    /\ \A i \in DOMAIN children : children[i].state # "blocked"
    /\ (Answered /\ launched # <<>> /\ PopenRaises(launched[1], os_dirs) = "") =>
          responses = <<HTTP_OK>>

\* ---- the comparisons a verifier makes, and what each of them examines ----
Comparison(fn, a, b) == [fn |-> fn, a |-> a, b |-> b]

\* the first place where two strings of one length differ, or that length
FirstDifference(a, b) ==
    IF a = b THEN Len(a)
    ELSE CHOOSE i \in 1..Len(a) : a[i] # b[i] /\ \A k \in 1..(i - 1) : a[k] = b[k]

\* how many places of its operands a comparison looks at: str.__eq__ answers
\* at once for None and for unequal lengths and stops at the first difference,
\* hmac.compare_digest looks at every place of its second operand
Examined(c) ==
    IF c.fn = "compare_digest" THEN Len(c.b)
    ELSE IF c.a = None \/ Len(c.a) # Len(c.b) THEN 0
    ELSE FirstDifference(c.a, c.b)

\* GithubSignatureVerifier.verify, line 49
GithubComparisons(payload, signature, secret) ==
    IF signature = None \/ secret = EmptyStr \/ ~StartsWith(signature, PREFIX) THEN {}
    ELSE {Comparison("compare_digest", signature,
                     PREFIX \o HmacHexDigest("sha1", secret, payload))}

\* GiteeSignatureVerifier.verify, lines 56, 90 and 92
GiteeComparisons(signature, secret, timestamp) ==
    IF signature = None THEN {}
    ELSE {Comparison("compare_digest", signature, secret)}
         \cup IF /\ ~CompareDigestRaises(signature, secret)
                 /\ signature # secret
                 /\ timestamp # None
                 /\ IsIntLiteral(timestamp)
              THEN LET expected_signature ==
                           GiteeExpectedSignature(ParseInt(timestamp), secret)
                   IN  {Comparison("==", signature, expected_signature),
                        Comparison("compare_digest", signature, expected_signature)}
              ELSE {}

\* GitlabTokenVerifier.verify, line 26
GitlabComparisons(signature, secret) == {Comparison("==", signature, secret)}

\* CustomTokenVerifier.verify, line 37
CustomComparisons(verify_enabled, signature, secret) ==
    IF verify_enabled THEN {Comparison("==", signature, secret)} ELSE {}

\* the comparisons made by handler.verify_signature for a request
Comparisons(provider, req, config) ==
    CASE provider = GITHUB ->
            GithubComparisons(req.payload, DictGet(req.headers, "X-Hub-Signature"),
                              config.secret)
      [] provider = GITEE ->
            GiteeComparisons(DictGet(req.headers, "X-Gitee-Token"), config.secret,
                             DictGet(req.headers, "X-Gitee-Timestamp"))
      [] provider = GITLAB ->
            GitlabComparisons(DictGet(req.headers, "X-Gitlab-Token"), config.secret)
      [] provider = CUSTOM ->
            CustomComparisons(config.header_token # "",
                              IF config.header_token # ""
                              THEN DictGet(req.headers, config.header_token)
                              ELSE EmptyStr,
                              config.secret)

\* C25: every comparison of a received signature or token with the secret or
\* an expected signature, in all four verifiers, is constant-time: what it
\* examines does not depend on where the received value first differs.
C25_Original ==
    verification.called =>
        \A c \in Comparisons(request.provider, request, provider_config) :
            \A token \in NearTokens \cup {c.b} :
                Len(token) = Len(c.a) =>
                    Examined([c EXCEPT !.a = token]) = Examined(c)

\* C30: the outcome of a request is determined by the request and the tables
\* installed when it was taken: two deliveries with the same content taken
\* under the same tables end alike whatever was handled before them, and the
\* tables a request in flight uses are those of its start even if configure()
\* has installed others meanwhile.
C30_OutcomeDetermined ==
    /\ \A i, j \in DOMAIN served :
          (arrivals[i] = arrivals[j] /\ taken[i] = taken[j]) => served[i] = served[j]
    /\ pc # "idle" =>
          Tables(self_provider_configs, self_repository_configs) = taken[Len(taken)]
    /\ Passed("config") => provider_config = taken[Len(taken)].provider_configs[request.provider]

C30_Witness ==
    /\ pc = "launch"
    /\ Len(served) = 1 /\ Len(arrivals) = 2
    /\ arrivals[1] = arrivals[2] /\ taken[1] = taken[2]
    /\ served[1].responses = <<HTTP_OK>>
    /\ Tables(provider_configs, repository_configs) # taken[2]
    /\ children # <<>> /\ children[1].state = "running"

====
